---- MODULE Spec2Model ----
(***************************************************************************)
(* generate_author_pages.py: the author registry loaded from _config.yml,  *)
(* the attribution and title extraction, the corpus scan, the page         *)
(* renderer and main().                                                    *)
(*                                                                         *)
(* A Python str is a sequence of symbols.  Text that comes from a document *)
(* a file name or the configuration is a sequence of one-character         *)
(* strings.  A literal fragment of the page template is one symbol.        *)
(***************************************************************************)
EXTENDS Naturals, Sequences, FiniteSets

VARIABLES
    config,           \* the configuration document at CONFIG_PATH
    files,            \* BOOK_DIR: file name -> [readable, text]
    AUTHORS,          \* the module-level registry
    author_articles,  \* main's local: author -> list of (file_stem, title, section)
    console,          \* the lines printed so far by the current call or run
    pc,               \* where the process or the called function stands
    todo,             \* registry identifiers the page loop has still to visit
    run,              \* number of the current run of the tool
    scanned,          \* names handed to the extractors by the current run's scan
    written,          \* names written by the current run, in order
    prev,             \* the previous run: BOOK_DIR as it left it, the names it wrote
    call,             \* the function applied last and its argument
    ret               \* what that function returned

vars == <<config, files, AUTHORS, author_articles, console, pc, todo, run,
          scanned, written, prev, call, ret>>

(***************************************************************************)
(* Bounds                                                                  *)
(***************************************************************************)
MaxFiles == 2
MaxLines == 2
MaxRuns == 2

(***************************************************************************)
(* str                                                                     *)
(***************************************************************************)
UpperCase == <<"A","B","C","D","E","F","G","H","I","J","K","L","M",
               "N","O","P","Q","R","S","T","U","V","W","X","Y","Z">>
LowerCase == <<"a","b","c","d","e","f","g","h","i","j","k","l","m",
               "n","o","p","q","r","s","t","u","v","w","x","y","z">>

\* The characters of the model in code point order.
CodePoints == <<"\n", " ", "#", "(", ")", "*", ",", "-", ".",
                "0","1","2","3","4","5","6","7","8","9", ":">>
              \o UpperCase \o <<"[", "]", "_">> \o LowerCase

\* Op(v) for the value of v, which is computed once.
Let(v, Op(_)) == CHOOSE r \in {Op(x) : x \in {v}} : TRUE

Min(S) == CHOOSE x \in S : \A y \in S : x <= y
Max(S) == CHOOSE x \in S : \A y \in S : y <= x

Ord(c) ==
    IF \E i \in 1..Len(CodePoints) : CodePoints[i] = c
    THEN Min({i \in 1..Len(CodePoints) : CodePoints[i] = c})
    ELSE 0

LowerChar(c) ==
    IF \E i \in 1..26 : UpperCase[i] = c
    THEN LowerCase[CHOOSE i \in 1..26 : UpperCase[i] = c]
    ELSE c

UpperChar(c) ==
    IF \E i \in 1..26 : LowerCase[i] = c
    THEN UpperCase[CHOOSE i \in 1..26 : LowerCase[i] = c]
    ELSE c

IsLetter(c) == \E i \in 1..26 : UpperCase[i] = c \/ LowerCase[i] = c

IsSpace(c) == c \in {" ", "\n", "\t", "\r"}

\* str.lower()
Lower(s) == [i \in 1..Len(s) |-> LowerChar(s[i])]

\* str.title(): the first letter of every run of letters in upper case, the
\* other letters in lower case.
Title(s) ==
    [i \in 1..Len(s) |->
        IF i = 1 \/ ~IsLetter(s[i - 1]) THEN UpperChar(s[i]) ELSE LowerChar(s[i])]

\* str.strip()
Strip(s) ==
    LET keep == {i \in 1..Len(s) : ~IsSpace(s[i])}
    IN  IF keep = {} THEN <<>> ELSE SubSeq(s, Min(keep), Max(keep))

\* str.startswith(p), str.endswith(p)
StartsWith(s, p) == Len(s) >= Len(p) /\ SubSeq(s, 1, Len(p)) = p
EndsWith(s, p) == Len(s) >= Len(p) /\ SubSeq(s, Len(s) - Len(p) + 1, Len(s)) = p

\* s[i:] for a 1-based i.
From(s, i) == SubSeq(s, i, Len(s))

\* str.replace(old, ""): every occurrence of old, left to right, removed.
RECURSIVE Remove(_, _)
Remove(s, old) ==
    IF s = <<>> THEN <<>>
    ELSE IF StartsWith(s, old) THEN Remove(From(s, Len(old) + 1), old)
    ELSE <<s[1]>> \o Remove(Tail(s), old)

\* str.split(sep) for a one-character sep.
RECURSIVE Split(_, _)
Split(s, sep) ==
    LET at == {i \in 1..Len(s) : s[i] = sep}
    IN  IF at = {} THEN <<s>>
        ELSE <<SubSeq(s, 1, Min(at) - 1)>> \o Split(From(s, Min(at) + 1), sep)

\* sep.join(parts)
RECURSIVE Join(_, _)
Join(parts, sep) ==
    IF parts = <<>> THEN <<>>
    ELSE IF Len(parts) = 1 THEN parts[1]
    ELSE parts[1] \o <<sep>> \o Join(Tail(parts), sep)

\* a < b on str: lexicographic by code point.
StrLess(a, b) ==
    \E i \in 1..(Len(b)) :
        /\ \A j \in 1..(i - 1) : j <= Len(a) /\ a[j] = b[j]
        /\ \/ i = Len(a) + 1
           \/ i <= Len(a) /\ Ord(a[i]) < Ord(b[i])

(***************************************************************************)
(* The two patterns                                                        *)
(***************************************************************************)
w_author == <<"*", "a", "u", "t", "h", "o", "r">>

\* AUTHOR_PATTERN matched at position i of s: <<first, last>> of group 1, or
\* <<0, 0>>.  IGNORECASE; \s* is greedy and gives back; .+? is the shortest
\* run of characters other than a line break that a '*' follows.
AuthorMatchAt(s, i) ==
    IF ~(i + 6 <= Len(s) /\ Lower(SubSeq(s, i, i + 6)) = w_author) THEN <<0, 0>>
    ELSE
    LET p == i + 7
        q == IF p <= Len(s) /\ LowerChar(s[p]) = "s" THEN p + 1 ELSE p
    IN  IF ~(q <= Len(s) /\ s[q] = ":") THEN <<0, 0>>
        ELSE
        LET w == q + 1
            ws == {k \in 0..(Len(s) - q) : \A j \in w..(w + k - 1) : IsSpace(s[j])}
            ends(g) == {e \in g..(Len(s) - 1) :
                           /\ \A j \in g..e : s[j] # "\n"
                           /\ s[e + 1] = "*"}
            ok == {k \in ws : ends(w + k) # {}}
        IN  IF ok = {} THEN <<0, 0>>
            ELSE <<w + Max(ok), Min(ends(w + Max(ok)))>>

\* AUTHOR_PATTERN.search(s): group 1 of the leftmost match, as
\* [found, text].
AuthorSearch(s) ==
    LET at == {i \in 1..Len(s) : AuthorMatchAt(s, i) # <<0, 0>>}
    IN  IF at = {} THEN [found |-> FALSE, text |-> <<>>]
        ELSE LET m == AuthorMatchAt(s, Min(at))
             IN  [found |-> TRUE, text |-> SubSeq(s, m[1], m[2])]

\* AUTHOR_LINK_PATTERN matched at position i of s: <<a, b>>, the places of the
\* ']' and of the closing ')', or <<0, 0>>.
LinkMatchAt(s, i) ==
    IF s[i] # "[" THEN <<0, 0>>
    ELSE
    LET close == {a \in (i + 1)..Len(s) : s[a] = "]"}
    IN  IF close = {} \/ Min(close) = i + 1 THEN <<0, 0>>
        ELSE
        LET a == Min(close)
            paren == {b \in (a + 2)..Len(s) : s[b] = ")"}
        IN  IF ~(a + 1 <= Len(s) /\ s[a + 1] = "(") THEN <<0, 0>>
            ELSE IF paren = {} \/ Min(paren) = a + 2 THEN <<0, 0>>
            ELSE <<a, Min(paren)>>

\* AUTHOR_LINK_PATTERN.findall(s) from position i on: the display texts of the
\* matches, left to right, none overlapping another.
RECURSIVE LinkFindAll(_, _)
LinkFindAll(s, i) ==
    IF i > Len(s) THEN <<>>
    ELSE LET m == LinkMatchAt(s, i)
         IN  IF m = <<0, 0>> THEN LinkFindAll(s, i + 1)
             ELSE <<SubSeq(s, i + 1, m[1] - 1)>> \o LinkFindAll(s, m[2] + 1)

(***************************************************************************)
(* Paths and files                                                         *)
(***************************************************************************)
dot_md == <<".", "m", "d">>

\* Path.stem: the name without its last suffix.
PathStem(name) ==
    LET dots == {i \in 2..(Len(name) - 1) : name[i] = "."}
    IN  IF dots = {} THEN name ELSE SubSeq(name, 1, Max(dots) - 1)

\* BOOK_DIR.glob("*.md"): the names the pattern matches, in no particular order.
Glob(dir) == {name \in DOMAIN dir : EndsWith(name, dot_md)}

\* The orders in which an enumeration may yield the names of S.
Orders(S) ==
    {o \in [1..Cardinality(S) -> S] : \A i, j \in 1..Cardinality(S) : o[i] = o[j] => i = j}

\* One printed line.
Line(msg, arg, n) == [msg |-> msg, arg |-> arg, n |-> n]

\* Path.write_text: the file is created or replaced.
WriteText(dir, name, content) ==
    [n \in DOMAIN dir \cup {name} |->
        IF n = name THEN [readable |-> TRUE, text |-> content] ELSE dir[n]]

(***************************************************************************)
(* SECTIONS                                                                *)
(***************************************************************************)
SectionKeys ==
    << <<"0","1","-","i","n","t","r","o","d","u","c","t","i","o","n">>,
       <<"0","2","-","s","e","t","u","p">>,
       <<"0","3","-","e","n","e","r","g","y","-","b","a","s","i","c","s">>,
       <<"0","4","-","e","l","e","c","t","r","i","c","i","t","y","-",
         "m","a","r","k","e","t","s">>,
       <<"0","5","-","o","p","t","i","m","i","z","a","t","i","o","n">>,
       <<"0","6","-","c","a","p","a","c","i","t","y","-",
         "e","x","p","a","n","s","i","o","n">> >>

SectionLabels ==
    <<"Getting Started", "Getting Started",
      "Energy System Fundamentals", "Energy System Fundamentals",
      "Modelling Techniques", "Modelling Techniques">>

\* SECTIONS.get(file_stem, "Other")
SectionOf(file_stem) ==
    IF \E i \in 1..Len(SectionKeys) : SectionKeys[i] = file_stem
    THEN SectionLabels[CHOOSE i \in 1..Len(SectionKeys) : SectionKeys[i] = file_stem]
    ELSE "Other"

(***************************************************************************)
(* extract_authors_from_file, get_article_title                            *)
(***************************************************************************)
\* A function's outcome: its return value and the lines it printed.
Outcome(value, out) == [ret |-> value, out |-> out]

\* The handler forgets the print.
ReadError_silent(filepath) == Outcome(<<>>, <<>>)

\* except Exception as e: the diagnostic, then the empty list.
ReadError(filepath) == Outcome(<<>>, <<Line("Error reading", filepath, 0)>>)

extract_authors_from_file(filepath) ==
    IF ~files[filepath].readable
    THEN ReadError(filepath)
    ELSE
    LET content == files[filepath].text
    IN  Let(AuthorSearch(content), LAMBDA match :
        IF ~match.found THEN Outcome(<<>>, <<>>)
        ELSE
        LET author_text == match.text
        IN  Let(LinkFindAll(author_text, 1), LAMBDA authors :
            IF authors # <<>>
            THEN Outcome([i \in 1..Len(authors) |-> Lower(authors[i])], <<>>)
            ELSE Let(Split(author_text, ","), LAMBDA parts :
                 Outcome([i \in 1..Len(parts) |-> Lower(Strip(parts[i]))], <<>>))))

\* The test asks for the '#' alone.
IsH1Line_any_hash(line) == StartsWith(line, <<"#">>)

\* line.startswith('# ')
IsH1Line(line) == StartsWith(line, <<"#", " ">>)

get_article_title(filepath) ==
    IF ~files[filepath].readable
    THEN Outcome(PathStem(filepath), <<>>)
    ELSE
    Let(Split(files[filepath].text, "\n"), LAMBDA lines :
        LET h1 == {i \in 1..Len(lines) : IsH1Line(lines[i])}
        IN  IF h1 = {} THEN Outcome(PathStem(filepath), <<>>)
            ELSE Outcome(Strip(From(lines[Min(h1)], 3)), <<>>))

(***************************************************************************)
(* scan_articles                                                           *)
(***************************************************************************)
w_author_dash == <<"a", "u", "t", "h", "o", "r", "-">>
w_intro == <<"i", "n", "t", "r", "o">>
w_references == <<"r", "e", "f", "e", "r", "e", "n", "c", "e", "s">>

\* The tuple lacks 'intro'.
IsSpecialFile_without_intro(name) ==
    \/ StartsWith(name, w_author_dash)
    \/ StartsWith(name, w_references)

\* The tuple lacks 'author-'.
IsSpecialFile_without_author(name) ==
    \/ StartsWith(name, w_intro)
    \/ StartsWith(name, w_references)

\* md_file.name.startswith(('author-', 'intro', 'references'))
IsSpecialFile(name) ==
    \/ StartsWith(name, w_author_dash)
    \/ StartsWith(name, w_intro)
    \/ StartsWith(name, w_references)

\* A dict: its keys in insertion order and its values.
EmptyDict == [keys |-> <<>>, vals |-> <<>>]

\* author_articles[author].append(entry) on a defaultdict(list)
DictAppend(d, author, entry) ==
    IF author \in DOMAIN d.vals
    THEN [d EXCEPT !.vals[author] = Append(@, entry)]
    ELSE [keys |-> Append(d.keys, author),
          vals |-> [a \in DOMAIN d.vals \cup {author} |->
                       IF a = author THEN <<entry>> ELSE d.vals[a]]]

\* for author in authors: author_articles[author].append(entry)
RECURSIVE Credit(_, _, _)
Credit(d, authors, entry) ==
    IF authors = <<>> THEN d
    ELSE Let(DictAppend(d, Head(authors), entry), LAMBDA next :
             Credit(next, Tail(authors), entry))

\* The lists are left in the order of the appends.
SortByStem_unsorted(list) == list

\* list.sort(key=lambda x: x[0]): stable, ascending by file stem.
RECURSIVE SortByStem(_)
SortByStem(list) ==
    IF list = <<>> THEN <<>>
    ELSE Let(SortByStem(SubSeq(list, 1, Len(list) - 1)), LAMBDA rest :
         LET x == list[Len(list)]
             after == {i \in 1..Len(rest) : StrLess(x[1], rest[i][1])}
             at == IF after = {} THEN Len(rest) + 1 ELSE Min(after)
         IN  SubSeq(rest, 1, at - 1) \o <<x>> \o SubSeq(rest, at, Len(rest)))

\* The loop of scan_articles over the files in the order enumerated: the
\* dict, the lines printed and the names read.
RECURSIVE ScanLoop(_, _)
ScanLoop(order, acc) ==
    IF order = <<>> THEN acc
    ELSE
    LET md_file == Head(order)
    IN  IF IsSpecialFile(md_file) THEN ScanLoop(Tail(order), acc)
        ELSE
        Let(extract_authors_from_file(md_file), LAMBDA authors :
        Let(get_article_title(md_file), LAMBDA title :
        LET file_stem == PathStem(md_file)
            section == SectionOf(file_stem)
        IN  Let([dict |-> Credit(acc.dict, authors.ret, <<file_stem, title.ret, section>>),
                 out |-> acc.out \o authors.out \o title.out,
                 read |-> acc.read \cup {md_file}],
                LAMBDA next : ScanLoop(Tail(order), next))))

\* scan_articles() when the directory is enumerated in `order`.
scan_articles(order) ==
    Let(ScanLoop(order, [dict |-> EmptyDict, out |-> <<>>, read |-> {}]), LAMBDA acc :
        [ret |-> [keys |-> acc.dict.keys,
                  vals |-> [a \in DOMAIN acc.dict.vals |->
                               Let(acc.dict.vals[a], LAMBDA list : SortByStem(list))]],
         out |-> acc.out,
         read |-> acc.read])

\* dict.get(key, [])
ArticlesOf(d, author_id) ==
    IF author_id \in DOMAIN d.vals THEN d.vals[author_id] ELSE <<>>

(***************************************************************************)
(* load_authors_from_config                                                *)
(***************************************************************************)
w_name == <<"_", "n", "a", "m", "e">>
w_bio == <<"_", "b", "i", "o">>
w_github == <<"_", "g", "i", "t", "h", "u", "b">>
w_linkedin == <<"_", "l", "i", "n", "k", "e", "d", "i", "n">>
w_email == <<"_", "e", "m", "a", "i", "l">>

\* What yaml.safe_load yields: None, a scalar, or a mapping m.
YNull == [t |-> "null", m |-> <<>>]
YStr == [t |-> "str", m |-> <<>>]
YMap(m) == [t |-> "map", m |-> m]

\* d.get(key, {}) on a mapping d.
GetOrEmpty(d, key) == IF key \in DOMAIN d.m THEN d.m[key] ELSE YMap(<<>>)

\* substitutions.get(key, default)
SubGet(substitutions, key, default) ==
    IF key \in DOMAIN substitutions THEN substitutions[key] ELSE default

\* The error that leaves the function.
Raised == [ok |-> FALSE, authors |-> <<>>]
Returned(authors) == [ok |-> TRUE, authors |-> authors]

\* key.replace('_name', '')
AuthorIdOf(key) == Remove(key, w_name)

\* The AUTHORS dict built from the substitutions table.
BuildAuthors(substitutions) ==
    LET author_ids == {AuthorIdOf(key) :
                          key \in {k \in DOMAIN substitutions : EndsWith(k, w_name)}}
    IN  [author_id \in author_ids |->
            [name |-> SubGet(substitutions, author_id \o w_name, Title(author_id)),
             bio |-> SubGet(substitutions, author_id \o w_bio, <<>>),
             github |-> SubGet(substitutions, author_id \o w_github, <<>>),
             linkedin |-> SubGet(substitutions, author_id \o w_linkedin, <<>>),
             email |-> SubGet(substitutions, author_id \o w_email, <<>>)]]

\* load_authors_from_config(): open() fails on a missing file, yaml.safe_load
\* on a malformed one, .get on anything but a mapping, and the loop over the
\* keys on None; a scalar in place of the table has no key ending in '_name'.
load_authors_from_config ==
    IF config.kind # "doc" THEN Raised
    ELSE IF config.root.t # "map" THEN Raised
    ELSE
    LET sphinx == GetOrEmpty(config.root, "sphinx")
    IN  IF sphinx.t # "map" THEN Raised
        ELSE
        LET conf == GetOrEmpty(sphinx, "config")
        IN  IF conf.t # "map" THEN Raised
            ELSE
            LET substitutions == GetOrEmpty(conf, "myst_substitutions")
            IN  IF substitutions.t = "null" THEN Raised
                ELSE IF substitutions.t = "str" THEN Returned(<<>>)
                ELSE Returned(BuildAuthors(substitutions.m))

(***************************************************************************)
(* generate_author_page                                                    *)
(***************************************************************************)
\* The character the template puts around the document reference.
backtick == "BACKTICK"
\* The arrow of the back link.
leftarrow == "LEFTARROW"

\* One two-line table row per article.
RECURSIVE ArticleRows(_)
ArticleRows(articles) ==
    IF articles = <<>> THEN <<>>
    ELSE << <<"* - {doc}", backtick>> \o Head(articles)[1] \o <<backtick>>,
            <<"  - ", Head(articles)[3]>> >>
         \o ArticleRows(Tail(articles))

\* The table is rendered whether or not there are articles.
ArticleBlock_always_table(articles) ==
    << <<backtick, backtick, backtick, "{list-table}">>, <<":header-rows: 1">>, <<>>,
       <<"* - Article">>, <<"  - Section">> >>
    \o ArticleRows(articles)
    \o << <<backtick, backtick, backtick>> >>

\* if articles: the list-table, else: the placeholder.
ArticleBlock(articles) ==
    IF articles # <<>>
    THEN << <<backtick, backtick, backtick, "{list-table}">>, <<":header-rows: 1">>, <<>>,
            <<"* - Article">>, <<"  - Section">> >>
         \o ArticleRows(articles)
         \o << <<backtick, backtick, backtick>> >>
    ELSE << <<"*No articles found.*">> >>

generate_author_page(author_id, articles) ==
    IF author_id \notin DOMAIN AUTHORS
    THEN Outcome(<<>>, <<Line("Warning: No metadata found for author", author_id, 0)>>)
    ELSE
    LET author == AUTHORS[author_id]
        lines ==
            << <<"---">>,
               <<"orphan: true">>,
               <<"---">>,
               <<>>,
               <<"(author-">> \o author_id \o <<"-page)=">>,
               <<"# ">> \o author.name \o <<" - Articles">>,
               <<>>,
               <<"<a href=\"">> \o author.github
                   \o <<"\"><i class=\"fa-brands fa-github author-icon\"></i></a> ">>
                   \o <<"<a href=\"">> \o author.linkedin
                   \o <<"\"><i class=\"fa-brands fa-linkedin author-icon\"></i></a> ">>
                   \o <<"<a href=\"mailto:">> \o author.email
                   \o <<"\"><i class=\"fa-solid fa-envelope author-icon\"></i></a>">>,
               <<>>,
               author.bio,
               <<>>,
               <<"## Articles by ">> \o author.name,
               <<>> >>
            \o ArticleBlock(articles)
            \o << <<>>,
                  <<"<a href=\"intro.html#">> \o author_id
                      \o <<"\">", leftarrow, " Back to About the Author</a>">>,
                  <<>> >>
    IN  Outcome(Join(lines, "\n"), <<>>)

\* BOOK_DIR / f"author-{author_id}.md"
OutputName(author_id) == w_author_dash \o author_id \o dot_md

(***************************************************************************)
(* The process: the import, which loads AUTHORS, and main()                *)
(***************************************************************************)
NoCall == [fn |-> "none", arg |-> <<>>]
NoRun == [files |-> <<>>, written |-> <<>>]

\* AUTHORS = load_authors_from_config(), at import.
LoadAuthors ==
    /\ pc = "import"
    /\ \E r \in {load_authors_from_config} :
           /\ AUTHORS' = r.authors
           /\ pc' = IF r.ok THEN "main" ELSE "aborted"
    /\ UNCHANGED <<config, files, author_articles, console, todo, run,
                   scanned, written, prev, call, ret>>

\* The "  - author: n articles" lines, in the dict's order.
FoundLines(d) ==
    <<Line("Found articles for authors", <<>>, Len(d.keys))>>
    \o [i \in 1..Len(d.keys) |-> Line("articles", d.keys[i], Len(d.vals[d.keys[i]]))]

\* main() up to the page loop: the scan and the report of what it found.
ScanAndReport(order) ==
    /\ pc = "main"
    /\ \E r \in {scan_articles(order)} :
           /\ author_articles' = r.ret
           /\ scanned' = r.read
           /\ console' = console
                  \o <<Line("Scanning articles for author attribution...", <<>>, 0)>>
                  \o r.out \o FoundLines(r.ret)
    /\ todo' = DOMAIN AUTHORS
    /\ pc' = "pages"
    /\ UNCHANGED <<config, files, AUTHORS, run, written, prev, call, ret>>

\* One turn of "for author_id in AUTHORS".
WritePage(author_id) ==
    /\ pc = "pages"
    /\ author_id \in todo
    /\ \E content \in {generate_author_page(author_id,
                                 ArticlesOf(author_articles, author_id))} :
       LET output_path == OutputName(author_id)
       IN  IF content.ret # <<>>
           THEN /\ files' = WriteText(files, output_path, content.ret)
                /\ written' = Append(written, output_path)
                /\ console' = console \o content.out
                       \o <<Line("Generated", output_path, 0)>>
           ELSE /\ console' = console \o content.out
                /\ UNCHANGED <<files, written>>
    /\ todo' = todo \ {author_id}
    /\ UNCHANGED <<config, AUTHORS, author_articles, pc, run, scanned,
                   prev, call, ret>>

\* The loop is over: the closing line.
Finish ==
    /\ pc = "pages"
    /\ todo = {}
    /\ console' = console \o <<Line("Done!", <<>>, 0)>>
    /\ pc' = "done"
    /\ UNCHANGED <<config, files, AUTHORS, author_articles, todo, run,
                   scanned, written, prev, call, ret>>

\* The tool is started again on what the run left behind.
Rerun ==
    /\ pc \in {"done", "aborted"}
    /\ run < MaxRuns
    /\ run' = run + 1
    /\ prev' = [files |-> files, written |-> written]
    /\ pc' = "import"
    /\ AUTHORS' = <<>>
    /\ author_articles' = EmptyDict
    /\ console' = <<>>
    /\ todo' = {}
    /\ scanned' = {}
    /\ written' = <<>>
    /\ UNCHANGED <<config, files, call, ret>>

(***************************************************************************)
(* The functions applied on their own                                      *)
(***************************************************************************)
CallExtractAuthors(filepath) ==
    /\ pc = "idle"
    /\ \E r \in {extract_authors_from_file(filepath)} :
           ret' = r.ret /\ console' = console \o r.out
    /\ call' = [fn |-> "extract_authors_from_file", arg |-> filepath]
    /\ pc' = "returned"
    /\ UNCHANGED <<config, files, AUTHORS, author_articles, todo, run,
                   scanned, written, prev>>

CallGetTitle(filepath) ==
    /\ pc = "idle"
    /\ \E r \in {get_article_title(filepath)} :
           ret' = r.ret /\ console' = console \o r.out
    /\ call' = [fn |-> "get_article_title", arg |-> filepath]
    /\ pc' = "returned"
    /\ UNCHANGED <<config, files, AUTHORS, author_articles, todo, run,
                   scanned, written, prev>>

CallScanArticles(order) ==
    /\ pc = "idle"
    /\ \E r \in {scan_articles(order)} :
           ret' = r.ret /\ console' = console \o r.out /\ scanned' = r.read
    /\ call' = [fn |-> "scan_articles", arg |-> order]
    /\ pc' = "returned"
    /\ UNCHANGED <<config, files, AUTHORS, author_articles, todo, run,
                   written, prev>>

(***************************************************************************)
(* The documents, directories and configurations the check runs over       *)
(***************************************************************************)
n_Ada == <<"A", "d", "a">>
n_ada == <<"a", "d", "a">>
n_Bo == <<"B", "o">>
n_bo == <<"b", "o">>
n_Zed == <<"Z", "e", "d">>
n_zed == <<"z", "e", "d">>

mark_Author == <<"*", "A", "u", "t", "h", "o", "r", ":", " ">>
mark_authors == <<"*", "a", "u", "t", "h", "o", "r", "s", ":">>
mark_AUTHORS == <<"*", "A", "U", "T", "H", "O", "R", "S", ":", " ", " ">>

\* [display](x)
LinkTo(display) == <<"[">> \o display \o <<"]", "(", "x", ")">>

\* The marker line: its opening, the names, the closing '*'.
Marker(open, names) == open \o names \o <<"*">>

comma == <<",">>
comma_space == <<",", " ">>

\* The lines a document of the single-document runs is made of.
LineSamples ==
    { <<"#", " ", "T">>,
      <<"#", " ", " ", "U", " ", "V", " ">>,
      <<"#", "#", " ", "S">>,
      <<"#", "T">>,
      <<" ", "#", " ", "W">>,
      <<"#", " ">>,
      <<"x">>,
      Marker(mark_Author, LinkTo(n_Ada) \o comma_space \o LinkTo(n_Bo)),
      Marker(mark_Author, LinkTo(<<" ">> \o n_Ada \o <<" ">>)),
      Marker(mark_authors, n_Ada \o <<" ">> \o comma \o <<" ">> \o n_Bo),
      Marker(mark_AUTHORS, n_Zed),
      Marker(mark_Author, <<>>),
      mark_Author \o n_Ada,
      Marker(mark_Author, n_Ada \o comma_space \o LinkTo(n_Bo)) }

Text(lines) == [readable |-> TRUE, text |-> Join(lines, "\n")]
Unreadable == [readable |-> FALSE, text |-> <<>>]

md(stem) == stem \o dot_md

\* The files a directory of the tool's runs is made of.
DocSamples ==
    << [name |-> md(<<"b">>),
        file |-> Text(<< <<"#", " ", "B">>,
                         Marker(mark_Author, LinkTo(n_Ada) \o comma_space \o LinkTo(n_Bo)) >>)],
       [name |-> md(<<"a">>),
        file |-> Text(<< <<"#", " ", "A">>, Marker(mark_authors, n_Ada) >>)],
       [name |-> md(<<"a">>), file |-> Unreadable],
       [name |-> md(<<"c">>),
        file |-> Text(<< Marker(mark_authors, n_Zed \o comma_space \o n_Ada) >>)],
       [name |-> md(w_author_dash \o n_ada),
        file |-> Text(<< <<"#", " ", "O">>, Marker(mark_Author, n_Bo) >>)],
       [name |-> md(SectionKeys[2]),
        file |-> Text(<< <<"#", " ", "S">>, Marker(mark_Author, n_Bo) >>)] >>

\* The files a directory handed to one function may hold besides.
MoreDocSamples ==
    << [name |-> md(<<"d">>),
        file |-> Text(<< <<"#", " ", "D">>, Marker(mark_Author, n_Bo \o comma_space \o n_Bo) >>)],
       [name |-> md(<<"e">>), file |-> Text(<< <<"x">> >>)],
       [name |-> md(w_intro),
        file |-> Text(<< <<"#", " ", "I">>, Marker(mark_Author, n_Ada) >>)],
       [name |-> <<"n", ".", "t", "x", "t">>,
        file |-> Text(<< Marker(mark_Author, n_Ada) >>)] >>

\* The directory holding the files S of the samples.
DirOf(samples, S) ==
    [n \in {samples[i].name : i \in S} |->
        samples[CHOOSE i \in S : samples[i].name = n].file]

\* Every directory of at most MaxFiles of the samples, no two of one name.
Directories(samples) ==
    {DirOf(samples, S) : S \in {T \in SUBSET (1..Len(samples)) :
                          /\ Cardinality(T) <= MaxFiles
                          /\ \A i, j \in T : samples[i].name = samples[j].name => i = j}}

\* Every directory of one readable document of at most MaxLines lines.
OneDocDirs ==
    {[n \in {md(<<"a">>)} |-> Text(ls)] :
        ls \in UNION {[1..k -> LineSamples] : k \in 0..MaxLines}}

\* A mapping written as its (key, value) pairs.
MapOf(pairs) ==
    [k \in {pairs[i][1] : i \in 1..Len(pairs)} |->
        pairs[CHOOSE i \in 1..Len(pairs) : pairs[i][1] = k][2]]

\* The myst_substitutions tables.
SubsSamples ==
    { MapOf(<< <<n_ada \o w_name, <<"A", "d", "a", " ", "L">> >>,
               <<n_ada \o w_bio, <<"B", "i", "o">> >>,
               <<n_ada \o w_github, <<"g">> >>,
               <<n_ada \o w_linkedin, <<"l">> >>,
               <<n_ada \o w_email, <<"e">> >>,
               <<n_bo \o w_name, <<"B", "o">> >> >>),
      MapOf(<< <<n_bo \o w_name, <<"B", "o">> >>,
               <<n_bo \o w_bio, <<"B">> >>,
               <<<<"s", "i", "t", "e">>, <<"s">> >> >>),
      MapOf(<< <<<<"a">> \o w_name \o <<"_", "b">> \o w_name, <<"A", "B">> >>,
               <<n_ada \o w_name, n_Ada>> >>),
      <<>> }

\* _config.yml with the table (or whatever stands in its place) at
\* sphinx.config.myst_substitutions.
ConfigWith(table) ==
    [kind |-> "doc",
     root |-> YMap([sphinx |-> YMap([config |-> YMap([myst_substitutions |-> table])])])]

ConfigSamples ==
    { [kind |-> "missing", root |-> YNull],
      [kind |-> "malformed", root |-> YNull],
      [kind |-> "doc", root |-> YNull],
      [kind |-> "doc", root |-> YStr],
      [kind |-> "doc", root |-> YMap([title |-> YStr])],
      [kind |-> "doc", root |-> YMap([sphinx |-> YNull])],
      [kind |-> "doc", root |-> YMap([sphinx |-> YMap([extra_extensions |-> YStr])])],
      [kind |-> "doc", root |-> YMap([sphinx |-> YMap([config |-> YMap(<<>>)])])],
      ConfigWith(YNull),
      ConfigWith(YStr) }
    \cup {ConfigWith(YMap(t)) : t \in SubsSamples}

(***************************************************************************)
(* Specifications                                                          *)
(***************************************************************************)
\* The tool is started on a directory and a configuration.
Init ==
    /\ config \in ConfigSamples
    /\ files \in Directories(DocSamples)
    /\ AUTHORS = <<>>
    /\ author_articles = EmptyDict
    /\ console = <<>>
    /\ pc = "import"
    /\ todo = {}
    /\ run = 1
    /\ scanned = {}
    /\ written = <<>>
    /\ prev = NoRun
    /\ call = NoCall
    /\ ret = <<>>

Next ==
    \/ LoadAuthors
    \/ \E order \in Orders(Glob(files)) : ScanAndReport(order)
    \/ \E author_id \in todo : WritePage(author_id)
    \/ Finish
    \/ Rerun

Spec == Init /\ [][Next]_vars

\* One function of the module is applied to a directory.
InitFn ==
    /\ config = [kind |-> "missing", root |-> YNull]
    /\ files \in Directories(DocSamples \o MoreDocSamples) \cup OneDocDirs
    /\ AUTHORS = <<>>
    /\ author_articles = EmptyDict
    /\ console = <<>>
    /\ pc = "idle"
    /\ todo = {}
    /\ run = 1
    /\ scanned = {}
    /\ written = <<>>
    /\ prev = NoRun
    /\ call = NoCall
    /\ ret = <<>>

NextFn ==
    \/ \E filepath \in DOMAIN files : CallExtractAuthors(filepath)
    \/ \E filepath \in DOMAIN files : CallGetTitle(filepath)
    \/ \E order \in Orders(Glob(files)) : CallScanArticles(order)

SpecFn == InitFn /\ [][NextFn]_vars

(***************************************************************************)
(* What the claims are stated in                                           *)
(***************************************************************************)
Range(seq) == {seq[i] : i \in DOMAIN seq}
Count(x, seq) == Cardinality({i \in DOMAIN seq : seq[i] = x})

\* No upper-case letter; no white space at either end.
IsLowered(s) == \A i \in DOMAIN s : \A k \in 1..26 : s[i] # UpperCase[k]
IsTrimmed(s) == s = <<>> \/ (~IsSpace(s[1]) /\ ~IsSpace(s[Len(s)]))

\* The file name starts with 'author-', 'intro' or 'references'.
HasReservedPrefix(name) ==
    \E p \in {<<"a", "u", "t", "h", "o", "r", "-">>,
              <<"i", "n", "t", "r", "o">>,
              <<"r", "e", "f", "e", "r", "e", "n", "c", "e", "s">>} :
        Len(name) >= Len(p) /\ \A i \in 1..Len(p) : name[i] = p[i]

\* t is the file name up to its last suffix.
IsStemOf(t, name) ==
    \E k \in 2..Len(name) :
        /\ name[k] = "."
        /\ \A j \in (k + 1)..Len(name) : name[j] # "."
        /\ t = SubSeq(name, 1, k - 1)

\* The (stem, title, section) entry of a document.
EntryOf(name) ==
    <<PathStem(name), get_article_title(name).ret, SectionOf(PathStem(name))>>

\* The identifiers extracted from a document.
CreditedIn(name) == extract_authors_from_file(name).ret

\* An author's list in a dict of lists.
ListOf(d, author) == IF author \in DOMAIN d.vals THEN d.vals[author] ELSE <<>>

\* Ascending by file stem.
IsSortedByStem(list) ==
    \A i, j \in DOMAIN list : i < j => ~StrLess(list[j][1], list[i][1])

\* The configuration is a document with a mapping at sphinx.config.myst_substitutions.
HasSubstitutionsTable(cfg) ==
    /\ cfg.kind = "doc"
    /\ cfg.root.t = "map" /\ "sphinx" \in DOMAIN cfg.root.m
    /\ cfg.root.m["sphinx"].t = "map" /\ "config" \in DOMAIN cfg.root.m["sphinx"].m
    /\ cfg.root.m["sphinx"].m["config"].t = "map"
    /\ "myst_substitutions" \in DOMAIN cfg.root.m["sphinx"].m["config"].m
    /\ cfg.root.m["sphinx"].m["config"].m["myst_substitutions"].t = "map"

SubstitutionsOf(cfg) == cfg.root.m["sphinx"].m["config"].m["myst_substitutions"].m

ScanReturned == call.fn = "scan_articles" /\ pc = "returned"

(***************************************************************************)
(* C1: every identifier credited in a scanned document but absent from    *)
(* the registry gets no author-<id>.md and a warning naming it on the      *)
(* console.  The code never warns: main() renders registry identifiers     *)
(* only.  Stated for the runs whose configuration holds the table and     *)
(* whose registry is not empty.                                            *)
(***************************************************************************)
C1_UnregisteredWarned ==
    (pc = "done" /\ HasSubstitutionsTable(config) /\ DOMAIN AUTHORS # {}) =>
        \A a \in DOMAIN author_articles.vals \ DOMAIN AUTHORS :
            /\ OutputName(a) \notin Range(written)
            /\ \E i \in DOMAIN console :
                   /\ console[i].msg = "Warning: No metadata found for author"
                   /\ console[i].arg = a

(***************************************************************************)
(* C2: a configuration that is missing, unreadable or structurally invalid *)
(* (an empty document, or one without sphinx.config.myst_substitutions)    *)
(* aborts the run before any scan or write; the loader never yields an     *)
(* empty registry in place of the error.                                   *)
(***************************************************************************)
C2_InvalidConfigAborts ==
    (pc # "import" /\ ~HasSubstitutionsTable(config)) =>
        /\ pc = "aborted"
        /\ scanned = {}
        /\ written = <<>>

(***************************************************************************)
(* C3: when main() is done, every registry identifier has had exactly one  *)
(* page written; the page of an author without articles holds the          *)
(* placeholder and no table, the page of an author with articles holds a   *)
(* table of one row per entry and no placeholder.                          *)
(***************************************************************************)
RowsIn(page) == Cardinality({i \in DOMAIN page : page[i] = "* - {doc}"})
HasTable(page) == "{list-table}" \in Range(page)
HasPlaceholder(page) == "*No articles found.*" \in Range(page)

C3_OnePagePerRegisteredAuthor ==
    pc = "done" =>
        \A author_id \in DOMAIN AUTHORS :
            /\ Count(OutputName(author_id), written) = 1
            /\ OutputName(author_id) \in DOMAIN files
            /\ LET page == files[OutputName(author_id)].text
                   articles == ListOf(author_articles, author_id)
               IN  IF articles = <<>>
                   THEN HasPlaceholder(page) /\ ~HasTable(page) /\ RowsIn(page) = 0
                   ELSE HasTable(page) /\ RowsIn(page) = Len(articles)
                        /\ ~HasPlaceholder(page)

C3_Witness ==
    /\ pc = "done"
    /\ \E a, b \in DOMAIN AUTHORS :
           /\ Len(ListOf(author_articles, a)) = 2
           /\ ListOf(author_articles, b) = <<>>

C5_NamesLoweredAndTrimmed ==
    (call.fn = "extract_authors_from_file" /\ pc = "returned") =>
        \A i \in DOMAIN ret : IsLowered(ret[i]) /\ IsTrimmed(ret[i])

(***************************************************************************)
(* C6: as claimed, an unreadable document makes both                       *)
(* extract_authors_from_file and get_article_title print a diagnostic and  *)
(* return their no-data result, and the scan goes on, its lists those of   *)
(* the readable documents alone.                                           *)
(***************************************************************************)
ErrorLogged(filepath) ==
    \E i \in DOMAIN console :
        console[i].msg = "Error reading" /\ console[i].arg = filepath

\* The scan read every document it had to and its lists are those the
\* readable documents alone give.
ScanAsIfUnreadableAbsent ==
    LET docs == {n \in Glob(files) : ~HasReservedPrefix(n)}
        good == {n \in docs : files[n].readable}
        credited == UNION {Range(CreditedIn(n)) : n \in good}
    IN  /\ scanned = docs
        /\ DOMAIN ret.vals = credited
        /\ \A a \in credited :
               /\ \A i \in DOMAIN ret.vals[a] :
                      \E n \in good : ret.vals[a][i] = EntryOf(n)
               /\ \A n \in good :
                      Count(EntryOf(n), ret.vals[a]) = Count(a, CreditedIn(n))
               /\ IsSortedByStem(ret.vals[a])

C6_BothLogAndScanGoesOn ==
    /\ (call.fn = "extract_authors_from_file" /\ ~files[call.arg].readable) =>
           ret = <<>> /\ ErrorLogged(call.arg)
    /\ (call.fn = "get_article_title" /\ ~files[call.arg].readable) =>
           IsStemOf(ret, call.arg) /\ ErrorLogged(call.arg)
    /\ ScanReturned => ScanAsIfUnreadableAbsent

(***************************************************************************)
(* C6 as amended: extract_authors_from_file prints the diagnostic and      *)
(* returns the empty list; get_article_title returns the file stem and     *)
(* prints nothing; the scan reads every document, prints one diagnostic    *)
(* for each unreadable one, and its lists are those of the readable        *)
(* documents alone.                                                        *)
(***************************************************************************)
C6_OnlyExtractLogs ==
    /\ (call.fn = "extract_authors_from_file" /\ ~files[call.arg].readable) =>
           ret = <<>> /\ console = <<Line("Error reading", call.arg, 0)>>
    /\ (call.fn = "get_article_title" /\ ~files[call.arg].readable) =>
           IsStemOf(ret, call.arg) /\ console = <<>>
    /\ ScanReturned =>
           /\ ScanAsIfUnreadableAbsent
           /\ \A n \in scanned :
                  Count(Line("Error reading", n, 0), console) =
                      IF files[n].readable THEN 0 ELSE 1

C6_Witness ==
    /\ ScanReturned
    /\ \E n \in scanned : ~files[n].readable
    /\ call.arg # <<>> /\ ~files[call.arg[1]].readable
    /\ ret.keys # <<>>

(***************************************************************************)
(* C7: the tool run twice on one directory and configuration: the pages    *)
(* the first run wrote are not read by the second run's scan, and the      *)
(* second run leaves every file as the first left it.                      *)
(***************************************************************************)
C7_SecondRunChangesNothing ==
    run >= 2 =>
        /\ scanned \cap Range(prev.written) = {}
        /\ pc = "done" =>
               /\ Range(written) = Range(prev.written)
               /\ files = prev.files

C7_Witness ==
    /\ run = 2
    /\ pc = "done"
    /\ Len(written) = 2
    /\ scanned # {}
    /\ \E a \in DOMAIN AUTHORS : ListOf(author_articles, a) # <<>>

(***************************************************************************)
(* C8: whatever the order in which the directory is enumerated,            *)
(* scan_articles gives every author the same list, ascending by file stem. *)
(***************************************************************************)
C8_ScanIndependentOfEnumerationOrder ==
    ScanReturned =>
        /\ \A order \in Orders(Glob(files)) : scan_articles(order).ret.vals = ret.vals
        /\ \A a \in DOMAIN ret.vals : IsSortedByStem(ret.vals[a])

C8_Witness ==
    /\ ScanReturned
    /\ Len(call.arg) = 2
    /\ StrLess(PathStem(call.arg[2]), PathStem(call.arg[1]))
    /\ \E a \in DOMAIN ret.vals :
           /\ Len(ret.vals[a]) = 2
           /\ ret.vals[a][1][1] = PathStem(call.arg[2])

(***************************************************************************)
(* C9: get_article_title returns the text after the marker of the first    *)
(* line that starts with '# ', without the white space around it, whatever *)
(* other headings the text holds; and the file stem when no line starts    *)
(* so.                                                                     *)
(***************************************************************************)
\* The places in a text where a line starting with '# ' begins.
H1Starts(text) ==
    {p \in 1..(Len(text) - 1) :
        /\ p = 1 \/ text[p - 1] = "\n"
        /\ text[p] = "#"
        /\ text[p + 1] = " "}

\* The last place of the line that holds place p.
LineEnd(text, p) ==
    Min({q \in p..Len(text) : q = Len(text) \/ text[q + 1] = "\n"})

\* t is s without the white space around it.
IsStripOf(t, s) ==
    /\ IsTrimmed(t)
    /\ \E i \in 1..(Len(s) + 1) :
           /\ \A k \in 1..(i - 1) : IsSpace(s[k])
           /\ i + Len(t) - 1 <= Len(s)
           /\ \A k \in 1..Len(t) : s[i + k - 1] = t[k]
           /\ \A k \in (i + Len(t))..Len(s) : IsSpace(s[k])

C9_TitleIsFirstH1OrStem ==
    (call.fn = "get_article_title" /\ pc = "returned" /\ files[call.arg].readable) =>
        LET text == files[call.arg].text
        IN  IF H1Starts(text) = {}
            THEN IsStemOf(ret, call.arg)
            ELSE LET p == Min(H1Starts(text))
                 IN  IsStripOf(ret, SubSeq(text, p + 2, LineEnd(text, p)))

C9_Witness ==
    /\ call.fn = "get_article_title"
    /\ pc = "returned"
    /\ files[call.arg].readable
    /\ LET text == files[call.arg].text
       IN  /\ H1Starts(text) # {}
           /\ Min(H1Starts(text)) > 1
           /\ text[1] = "#"
           /\ ret # <<>>
           /\ ret # SubSeq(text, Min(H1Starts(text)) + 2, Len(text))

(***************************************************************************)
(* C10: the registry has one entry for every substitution key ending in   *)
(* '_name', under the key without that suffix, with the key's value as the *)
(* name and the values of <id>_bio, <id>_github, <id>_linkedin and         *)
(* <id>_email, or the empty string, beside it; and no other entry.  The    *)
(* code removes every '_name' in the key, not the trailing one alone.      *)
(***************************************************************************)
WithoutSuffix(key) == SubSeq(key, 1, Len(key) - 5)

C10_RegistryIsTheNameKeys ==
    (pc \in {"main", "pages", "done"} /\ HasSubstitutionsTable(config)) =>
        LET subs == SubstitutionsOf(config)
            name_keys == {k \in DOMAIN subs :
                             Len(k) >= 5 /\ SubSeq(k, Len(k) - 4, Len(k)) = w_name}
            field(id, suffix) ==
                IF id \o suffix \in DOMAIN subs THEN subs[id \o suffix] ELSE <<>>
        IN  /\ DOMAIN AUTHORS = {WithoutSuffix(k) : k \in name_keys}
            /\ \A k \in name_keys :
                   LET id == WithoutSuffix(k)
                   IN  id \in DOMAIN AUTHORS =>
                           /\ AUTHORS[id].name = subs[k]
                           /\ AUTHORS[id].bio = field(id, w_bio)
                           /\ AUTHORS[id].github = field(id, w_github)
                           /\ AUTHORS[id].linkedin = field(id, w_linkedin)
                           /\ AUTHORS[id].email = field(id, w_email)

====
